---- MODULE Spec2Model ----
(***************************************************************************)
(* trade-relay: the trade registry (TradeMonitor.active_trades), the       *)
(* per-unit admission handler (ProcessingUnit) and the monitoring cycle    *)
(* (TradeMonitor.run_monitoring_cycle) of src/signal_bot.py.               *)
(*                                                                         *)
(* The program is a single asyncio event loop: the code between two awaits *)
(* runs atomically, and every await of an external call (extractor, price  *)
(* feed, message send) is a point where the other tasks may run.  Each     *)
(* action below is one such atomic segment: it resumes a task from the     *)
(* await it is suspended at and runs it to its next await.                 *)
(*                                                                         *)
(* Prices are integers in units of 0.1 (100.0 is 1000, 99.6 is 996).       *)
(***************************************************************************)
EXTENDS Integers, Sequences, FiniteSets, TLC

\* ----------------------------------------------------------------- bounds
\* Messages posted to the source channels over a run, all units together.
MaxMsgs == 2
\* Largest value of ENTRY_CONFIRM_TICKS explored by SpecLife.
MaxTicks == 3

\* ------------------------------------------------------ program constants
ENTRY_TOLERANCE_PIPS == 5
ENTRY_CONFIRM_TICKS == 3
MAX_MESSAGES_TO_POLL == 5
\* Python's None (an absent tp1/tp2, an unavailable price).
None == -1

\* The processing units (one source, storage and target channel each); the
\* TradeMonitor replies through the target channel of the first unit.
Units == {1, 2}
FirstUnit == 1
\* TargetChannel(app, first_unit_config.target_channel): the channel every
\* reply of reply_to_trade_message is sent to, named by its unit.
global_target_channel == FirstUnit

\* BotConfig.SYMBOLS: pip value per symbol, in price units of 0.1.
upper(symbol) == IF symbol = "xauusd" THEN "XAUUSD" ELSE symbol

PipValue(symbol) ==
    CASE upper(symbol) = "XAUUSD" -> 1
      [] upper(symbol) = "US30" -> 10

Kinds == {"EXECUTED", "SL", "TP1", "TP2", "BREAKEVEN", "CANCEL"}
NoNotes == [k \in Kinds |-> 0]

\* --------------------------------------------------------- input domains
\* What the extractor may return for a message under Spec.
Signals ==
    { [symbol |-> "XAUUSD", entry_price |-> 1000, sl |-> 950,  tp1 |-> 1100, tp2 |-> 1200],
      [symbol |-> "xauusd", entry_price |-> 1000, sl |-> 950,  tp1 |-> 1100, tp2 |-> None] }
\* What the price feed may return under Spec (besides None).
Prices == {940, 1110}

\* The finer domains of SpecLife: one trade, every shape of signal.
LifeSignals ==
    { [symbol |-> "XAUUSD", entry_price |-> 1000, sl |-> s, tp1 |-> a, tp2 |-> b] :
        s \in {950, 1000, 1050},
        a \in {None, 900, 940, 1060, 1100},
        b \in {None, 800, 930, 1070, 1200} }
LifePrices ==
    {800, 890, 940, 960, 990, 994, 995, 996, 1000, 1004, 1005, 1006, 1010, 1040,
     1060, 1110, 1200}
LifeSignalPrices == {990, 1000, 1010}

\* What becomes of a storage write or of an update reply: it reaches the
\* channel, or its error is caught and logged by the channel object.  Nothing
\* but stored and replyOk depends on it; Spec draws from Sent, the
\* specifications of the pipeline alone and of the monitoring loop alone from
\* SentOrLost.
Sent == {TRUE}
SentOrLost == BOOLEAN

\* Under SpecAdmit: LONG, UNKNOWN (entry = sl, and no sl) and SHORT signals,
\* met by a price below, at and above the entry, or by none.
AdmitSignals ==
    { [symbol |-> "XAUUSD", entry_price |-> 1000, sl |-> s, tp1 |-> a, tp2 |-> None] :
        s \in {950, 1000, 1050, None}, a \in {None, 1100} }
AdmitPrices == {990, 1000, 1010}

\* Under SpecPair: one LONG signal with both targets, one SHORT with TP1 only.
PairSignals ==
    { [symbol |-> "XAUUSD", entry_price |-> 1000, sl |-> 950, tp1 |-> 1100, tp2 |-> 1200],
      [symbol |-> "US30", entry_price |-> 1000, sl |-> 1050, tp1 |-> 900, tp2 |-> None] }
PairPrices == {940, 1000, 1110}

NoSignal == [symbol |-> "", entry_price |-> None, sl |-> None, tp1 |-> None, tp2 |-> None]

\* The sample sequences of the two worked scenarios, from the first sample
\* after the trade's creation on.
ScenarioA == <<996, 996, 996, 960, 940>>
ScenarioB == <<996, 996, 996, 1110, 940, 990>>
ScenarioSignal ==
    [symbol |-> "XAUUSD", entry_price |-> 1000, sl |-> 950, tp1 |-> 1100, tp2 |-> 1200]
Off == <<None>>

VARIABLES
    activeTrades,   \* TradeMonitor.active_trades: sequence of [symbol, tid], in dict order
    trades,         \* every Trade object created so far; tid is its index
    notes,          \* per trade, how many replies of each kind were issued for it
    origin,         \* per trade, the unit whose target channel holds its signal message
    confirmTicks,   \* BotConfig.ENTRY_CONFIRM_TICKS
    posted,         \* per unit, the number of messages in its source channel (ids 1..n)
    processed_ids,  \* ProcessingUnit.processed_ids
    sentCount,      \* per unit, the signal messages sent to its target channel
    unitPc,         \* per unit, the await its process() task is suspended at
    batch,          \* per unit, new_messages of the process() call that is running
    todo,           \* per unit, reversed(new_messages) still to handle
    parsed,         \* per unit, parsed_data of the message being handled
    existing,       \* per unit, existing_trade (a tid, 0 for None)
    sentId,         \* per unit, sent_message.id (0 before the send returned)
    price_now,      \* per unit, price_now of the handling (None before it is got)
    unitErr,        \* per unit, the exception that ended its process() task
    pollDead,       \* _polling_loop ended by an exception out of gather
    handled,        \* per unit, the ids _handle_single_message was called for, in order
    stored,         \* per unit, the ids written to its storage channel
    monPc,          \* the await run_monitoring_cycle is suspended at
    monItems,       \* the rest of list(self.active_trades.items())
    monRemove,      \* trades_to_remove
    monPrice,       \* price, while a reply is awaited
    monStatus,      \* status of _check_exit_hit, while a reply is awaited
    replyOk,        \* whether the last update reply of the cycle was delivered
    lastSample,     \* under SpecLife, the last price sample and the trade it was for
    hist            \* per trade, its samples so far while they follow a scenario

vars == <<activeTrades, trades, notes, confirmTicks, posted, processed_ids, sentCount,
          unitPc, todo, parsed, existing, sentId, price_now, unitErr, pollDead,
          handled, stored, batch, origin,
          monPc, monItems, monRemove, monPrice, monStatus, replyOk, lastSample, hist>>

unitVars == <<posted, processed_ids, sentCount, unitPc, todo, parsed, existing, sentId,
              price_now, unitErr, pollDead, handled, stored, batch, origin>>
monVars == <<monPc, monItems, monRemove, monPrice, monStatus, replyOk, lastSample, hist>>

\* ------------------------------------------------------------ the registry
HasKey(reg, symbol) == \E i \in 1..Len(reg) : reg[i].symbol = symbol

\* active_trades.get(symbol): the tid, 0 for None.
RegGet(reg, symbol) ==
    IF HasKey(reg, symbol)
    THEN reg[CHOOSE i \in 1..Len(reg) : reg[i].symbol = symbol].tid
    ELSE 0

\* del active_trades[symbol], for a key that is present.
RegDel(reg, symbol) == SelectSeq(reg, LAMBDA e : e.symbol # symbol)

\* active_trades[symbol] = trade: a present key keeps its place, a new one is last.
RegPutAppend(reg, symbol, tid) == Append(reg, [symbol |-> symbol, tid |-> tid])
RegPut(reg, symbol, tid) ==
    IF HasKey(reg, symbol)
    THEN [i \in 1..Len(reg) |->
            IF reg[i].symbol = symbol THEN [symbol |-> symbol, tid |-> tid] ELSE reg[i]]
    ELSE Append(reg, [symbol |-> symbol, tid |-> tid])

\* The deletions that end a monitoring cycle, in order; a missing key raises
\* KeyError and leaves the later ones undone.
RECURSIVE DelAll(_, _)
DelAll(reg, remove) ==
    IF remove = <<>> THEN [reg |-> reg, ok |-> TRUE]
    ELSE IF ~HasKey(reg, Head(remove)) THEN [reg |-> reg, ok |-> FALSE]
    ELSE DelAll(RegDel(reg, Head(remove)), Tail(remove))

\* -------------------------------------------------------------- the trade
determine_direction(entry_price, stop_loss) ==
    IF entry_price # None /\ stop_loss # None /\ entry_price > stop_loss THEN "BUY (LONG)"
    ELSE IF entry_price # None /\ stop_loss # None /\ entry_price < stop_loss
         THEN "SELL (SHORT)"
    ELSE "UNKNOWN"

\* Trade.__init__ compares current_price with the entry for a LONG or SHORT
\* signal: with current_price None the comparison raises TypeError.
TradeInitRaises(data, current_price) ==
    /\ current_price = None
    /\ determine_direction(data.entry_price, data.sl) # "UNKNOWN"

\* Trade.__init__ with the pullback flag always False.
NewTradeNoPullback(message_id, data, current_price) ==
    [ message_id |-> message_id,
      symbol |-> data.symbol,
      entry |-> data.entry_price,
      sl |-> data.sl,
      tp1 |-> data.tp1,
      tp2 |-> data.tp2,
      direction |-> determine_direction(data.entry_price, data.sl),
      status |-> "PENDING_ENTRY",
      tp1_hit |-> FALSE,
      entry_executed_price |-> None,
      entry_confirmation_count |-> 0,
      waiting_for_pullback |-> FALSE ]

\* Trade.__init__ (signal_price, which is stored and never read, is left out).
NewTrade(message_id, data, current_price) ==
    LET direction == determine_direction(data.entry_price, data.sl) IN
    [ message_id |-> message_id,
      symbol |-> data.symbol,
      entry |-> data.entry_price,
      sl |-> data.sl,
      tp1 |-> data.tp1,
      tp2 |-> data.tp2,
      direction |-> direction,
      status |-> "PENDING_ENTRY",
      tp1_hit |-> FALSE,
      entry_executed_price |-> None,
      entry_confirmation_count |-> 0,
      waiting_for_pullback |->
          \/ (direction = "BUY (LONG)" /\ current_price > data.entry_price)
          \/ (direction = "SELL (SHORT)" /\ current_price < data.entry_price) ]

_get_price_tolerance(symbol) == ENTRY_TOLERANCE_PIPS * PipValue(symbol)

\* The trade after _check_entry_hit(trade, price), with the counter held
\* instead of reset where the sample does not confirm.
_check_entry_hit_noreset(trade, price) ==
    LET tolerance == _get_price_tolerance(trade.symbol)
        up == [trade EXCEPT !.entry_confirmation_count = @ + 1]
        upClear == [up EXCEPT !.waiting_for_pullback = FALSE]
    IN  IF trade.direction = "BUY (LONG)" THEN
            IF trade.waiting_for_pullback
            THEN (IF price <= trade.entry + tolerance THEN upClear ELSE trade)
            ELSE (IF price >= trade.entry - tolerance THEN up ELSE trade)
        ELSE IF trade.direction = "SELL (SHORT)" THEN
            IF trade.waiting_for_pullback
            THEN (IF price >= trade.entry - tolerance THEN upClear ELSE trade)
            ELSE (IF price <= trade.entry + tolerance THEN up ELSE trade)
        ELSE trade

\* The trade after _check_entry_hit(trade, price), with the SELL branch taken
\* by every trade that is not BUY.
_check_entry_hit_else(trade, price) ==
    LET tolerance == _get_price_tolerance(trade.symbol)
        up == [trade EXCEPT !.entry_confirmation_count = @ + 1]
        upClear == [up EXCEPT !.waiting_for_pullback = FALSE]
        reset == [trade EXCEPT !.entry_confirmation_count = 0]
    IN  IF trade.direction = "BUY (LONG)" THEN
            IF trade.waiting_for_pullback
            THEN (IF price <= trade.entry + tolerance THEN upClear ELSE reset)
            ELSE (IF price >= trade.entry - tolerance THEN up ELSE reset)
        ELSE
            IF trade.waiting_for_pullback
            THEN (IF price >= trade.entry - tolerance THEN upClear ELSE reset)
            ELSE (IF price <= trade.entry + tolerance THEN up ELSE reset)

\* The trade after _check_entry_hit(trade, price), with the pullback flag left
\* set by the sample that confirms the pullback.
_check_entry_hit_keepflag(trade, price) ==
    LET tolerance == _get_price_tolerance(trade.symbol)
        up == [trade EXCEPT !.entry_confirmation_count = @ + 1]
        reset == [trade EXCEPT !.entry_confirmation_count = 0]
    IN  IF trade.direction = "BUY (LONG)" THEN
            IF trade.waiting_for_pullback
            THEN (IF price <= trade.entry + tolerance THEN up ELSE reset)
            ELSE (IF price >= trade.entry - tolerance THEN up ELSE reset)
        ELSE IF trade.direction = "SELL (SHORT)" THEN
            IF trade.waiting_for_pullback
            THEN (IF price >= trade.entry - tolerance THEN up ELSE reset)
            ELSE (IF price <= trade.entry + tolerance THEN up ELSE reset)
        ELSE trade

\* The trade after _check_entry_hit(trade, price).
_check_entry_hit(trade, price) ==
    LET tolerance == _get_price_tolerance(trade.symbol)
        up == [trade EXCEPT !.entry_confirmation_count = @ + 1]
        upClear == [up EXCEPT !.waiting_for_pullback = FALSE]
        reset == [trade EXCEPT !.entry_confirmation_count = 0]
    IN  IF trade.direction = "BUY (LONG)" THEN
            IF trade.waiting_for_pullback
            THEN (IF price <= trade.entry + tolerance THEN upClear ELSE reset)
            ELSE (IF price >= trade.entry - tolerance THEN up ELSE reset)
        ELSE IF trade.direction = "SELL (SHORT)" THEN
            IF trade.waiting_for_pullback
            THEN (IF price >= trade.entry - tolerance THEN upClear ELSE reset)
            ELSE (IF price <= trade.entry + tolerance THEN up ELSE reset)
        ELSE trade

\* Its return value, read off the trade it left.
EntryHitStrict(trade, ticks) == trade.entry_confirmation_count > ticks
EntryHit(trade, ticks) == trade.entry_confirmation_count >= ticks

\* Python truth of an Optional[float].
Truthy(x) == x # None /\ x # 0

Result(status, trade) == [status |-> status, trade |-> trade]

\* The BUY branch with TP2 looked at before the stop loss.
ExitLongTp2First(trade, price) ==
    LET has_tp2 == trade.tp2 # None IN
    IF Truthy(trade.tp2) /\ price >= trade.tp2 THEN Result("TP2", trade)
    ELSE IF ~trade.tp1_hit /\ price <= trade.sl THEN Result("SL", trade)
    ELSE IF Truthy(trade.tp1) /\ price >= trade.tp1 /\ ~trade.tp1_hit
         THEN Result(IF has_tp2 THEN "TP1" ELSE "TP1_FINAL", [trade EXCEPT !.tp1_hit = TRUE])
    ELSE IF has_tp2 /\ trade.tp1_hit /\ price <= trade.entry THEN Result("BREAKEVEN", trade)
    ELSE Result("NONE", trade)

\* The BUY branch with the stop loss still armed after TP1.
ExitLongSlArmed(trade, price) ==
    LET has_tp2 == trade.tp2 # None IN
    IF price <= trade.sl THEN Result("SL", trade)
    ELSE IF Truthy(trade.tp2) /\ price >= trade.tp2 THEN Result("TP2", trade)
    ELSE IF Truthy(trade.tp1) /\ price >= trade.tp1 /\ ~trade.tp1_hit
         THEN Result(IF has_tp2 THEN "TP1" ELSE "TP1_FINAL", [trade EXCEPT !.tp1_hit = TRUE])
    ELSE IF has_tp2 /\ trade.tp1_hit /\ price <= trade.entry THEN Result("BREAKEVEN", trade)
    ELSE Result("NONE", trade)

\* The BUY branch without its breakeven guard.
ExitLongNoBreakeven(trade, price) ==
    LET has_tp2 == trade.tp2 # None IN
    IF ~trade.tp1_hit /\ price <= trade.sl THEN Result("SL", trade)
    ELSE IF Truthy(trade.tp2) /\ price >= trade.tp2 THEN Result("TP2", trade)
    ELSE IF Truthy(trade.tp1) /\ price >= trade.tp1 /\ ~trade.tp1_hit
         THEN Result(IF has_tp2 THEN "TP1" ELSE "TP1_FINAL", [trade EXCEPT !.tp1_hit = TRUE])
    ELSE Result("NONE", trade)

\* _check_exit_hit, BUY trades: the status returned and the trade it left.
ExitLong(trade, price) ==
    LET has_tp2 == trade.tp2 # None IN
    IF ~trade.tp1_hit /\ price <= trade.sl THEN Result("SL", trade)
    ELSE IF Truthy(trade.tp2) /\ price >= trade.tp2 THEN Result("TP2", trade)
    ELSE IF Truthy(trade.tp1) /\ price >= trade.tp1 /\ ~trade.tp1_hit
         THEN Result(IF has_tp2 THEN "TP1" ELSE "TP1_FINAL", [trade EXCEPT !.tp1_hit = TRUE])
    ELSE IF has_tp2 /\ trade.tp1_hit /\ price <= trade.entry THEN Result("BREAKEVEN", trade)
    ELSE Result("NONE", trade)

\* _check_exit_hit, SELL trades.
ExitShort(trade, price) ==
    LET has_tp2 == trade.tp2 # None IN
    IF ~trade.tp1_hit /\ price >= trade.sl THEN Result("SL", trade)
    ELSE IF Truthy(trade.tp2) /\ price <= trade.tp2 THEN Result("TP2", trade)
    ELSE IF Truthy(trade.tp1) /\ price <= trade.tp1 /\ ~trade.tp1_hit
         THEN Result(IF has_tp2 THEN "TP1" ELSE "TP1_FINAL", [trade EXCEPT !.tp1_hit = TRUE])
    ELSE IF has_tp2 /\ trade.tp1_hit /\ price >= trade.entry THEN Result("BREAKEVEN", trade)
    ELSE Result("NONE", trade)

\* _check_exit_hit(trade, price); "NONE" stands for (None, None).
_check_exit_hit(trade, price) ==
    IF trade.direction = "BUY (LONG)" THEN ExitLong(trade, price)
    ELSE IF trade.direction = "SELL (SHORT)" THEN ExitShort(trade, price)
    ELSE Result("NONE", trade)

\* The reply kind run_monitoring_cycle sends for a status, and whether the
\* symbol goes to trades_to_remove.
UpdateKind(status) == IF status = "TP1_FINAL" THEN "TP1" ELSE status
IsFinalNoTp1(status) == status \in {"SL", "TP2", "BREAKEVEN"}
IsFinal(status) == status \in {"SL", "TP1_FINAL", "TP2", "BREAKEVEN"}

\* reply_to_trade_message(trade.message_id, ...): one more reply of this kind.
Reply(nts, tid, kind) == [nts EXCEPT ![tid][kind] = @ + 1]

\* ------------------------------------------------------------- observers
IsPrefix(s, t) == Len(s) <= Len(t) /\ \A i \in 1..Len(s) : s[i] = t[i]
\* The scenarios start from a trade created at its entry price (no pullback).
Track0(trade) == IF trade.waiting_for_pullback THEN Off ELSE <<>>
Track(h, p) ==
    IF h = Off THEN Off
    ELSE IF IsPrefix(Append(h, p), ScenarioA) \/ IsPrefix(Append(h, p), ScenarioB)
         THEN Append(h, p)
    ELSE Off

\* -------------------------------------------------------------- Init
Fresh ==
    /\ notes = [i \in 1..Len(trades) |-> NoNotes]
    /\ origin = [i \in 1..Len(trades) |-> FirstUnit]
    /\ unitPc = [u \in Units |-> "idle"]
    /\ todo = [u \in Units |-> <<>>]
    /\ batch = [u \in Units |-> <<>>]
    /\ parsed = [u \in Units |-> NoSignal]
    /\ existing = [u \in Units |-> 0]
    /\ sentId = [u \in Units |-> 0]
    /\ price_now = [u \in Units |-> None]
    /\ unitErr = [u \in Units |-> "none"]
    /\ pollDead = FALSE
    /\ monPc = "sleep"
    /\ monItems = <<>>
    /\ monRemove = <<>>
    /\ monPrice = None
    /\ monStatus = "NONE"
    /\ replyOk = TRUE
    /\ lastSample = [tid |-> 0, price |-> None]
    /\ hist = [i \in 1..Len(trades) |-> Track0(trades[i])]

\* The state SignalProcessor.start() leaves: no trade, nothing processed.
Init ==
    /\ activeTrades = <<>>
    /\ trades = <<>>
    /\ confirmTicks = ENTRY_CONFIRM_TICKS
    /\ posted = [u \in Units |-> 0]
    /\ processed_ids = [u \in Units |-> {}]
    /\ sentCount = [u \in Units |-> 0]
    /\ handled = [u \in Units |-> <<>>]
    /\ stored = [u \in Units |-> {}]
    /\ Fresh

\* ------------------------------------------------- the admission pipeline
Total(f) == f[1] + f[2]

\* The source channel of unit u receives one more message.
PostMessage(u) ==
    /\ Total(posted) < MaxMsgs
    /\ posted' = [posted EXCEPT ![u] = @ + 1]
    /\ UNCHANGED <<activeTrades, trades, notes, confirmTicks, processed_ids, sentCount,
                   unitPc, todo, parsed, existing, sentId, unitErr, pollDead>>
    /\ UNCHANGED <<handled, stored, price_now, batch, origin>>
    /\ UNCHANGED monVars

\* `await asyncio.gather(*processing_tasks)` returns when every task has.
GatherDoneAny(pc) == \E u \in Units : pc[u] = "idle"
GatherDone(pc) == \A u \in Units : pc[u] = "idle"

\* _polling_loop: one process() task per unit, once the previous gather returned.
PollStart ==
    /\ ~pollDead
    /\ GatherDone(unitPc)
    /\ unitPc' = [u \in Units |-> "fetch"]
    /\ UNCHANGED <<activeTrades, trades, notes, confirmTicks, posted, processed_ids,
                   sentCount, todo, parsed, existing, sentId, unitErr, pollDead>>
    /\ UNCHANGED <<handled, stored, price_now, batch, origin>>
    /\ UNCHANGED monVars

RECURSIVE Descending(_, _)
Descending(hi, lo) == IF hi < lo THEN <<>> ELSE <<hi>> \o Descending(hi - 1, lo)
Max(a, b) == IF a >= b THEN a ELSE b
\* reversed(new_messages), and new_messages as it is.
NoReverse(s) == s
Reverse(s) == [i \in 1..Len(s) |-> s[Len(s) + 1 - i]]

\* SourceChannel.get_latest_messages(limit): the newest ids first.
get_latest_messages(n, limit) == Descending(n, Max(1, n - limit + 1))

\* new_messages = [msg for msg in raw_messages if msg.id not in self.processed_ids]
NewMessagesUnfiltered(raw_messages, ids) == raw_messages
NewMessages(raw_messages, ids) == SelectSeq(raw_messages, LAMBDA m : m \notin ids)

\* process(): the fetch returned; new_messages, reversed, is what is handled,
\* and _handle_single_message is called for the first of them.
UnitFetch(u) ==
    /\ unitPc[u] = "fetch"
    /\ LET raw_messages == get_latest_messages(posted[u], MAX_MESSAGES_TO_POLL)
           new_messages == NewMessages(raw_messages, processed_ids[u])
       IN  /\ batch' = [batch EXCEPT ![u] = new_messages]
           /\ todo' = [todo EXCEPT ![u] = Reverse(new_messages)]
           /\ unitPc' = [unitPc EXCEPT ![u] = IF new_messages = <<>> THEN "idle" ELSE "parse"]
           /\ handled' = IF new_messages = <<>> THEN handled
                         ELSE [handled EXCEPT ![u] = Append(@, Head(Reverse(new_messages)))]
           /\ UNCHANGED <<stored, price_now, origin>>
    /\ UNCHANGED <<activeTrades, trades, notes, confirmTicks, posted, processed_ids,
                   sentCount, parsed, existing, sentId, unitErr, pollDead>>
    /\ UNCHANGED monVars

\* An exception leaves _handle_single_message: process() ends, gather re-raises
\* it in _polling_loop, which ends; the other units' tasks run on.
Raise(u, err) ==
    /\ unitPc' = [unitPc EXCEPT ![u] = "raised"]
    /\ unitErr' = [unitErr EXCEPT ![u] = err]
    /\ pollDead' = TRUE
    /\ parsed' = [parsed EXCEPT ![u] = NoSignal]
    /\ existing' = [existing EXCEPT ![u] = 0]
    /\ sentId' = [sentId EXCEPT ![u] = 0]

\* The lines after `existing_trade = ...get(symbol)`: where the handler goes
\* for what it found ("cancel": line 270, "save_skip": line 280, "send": line 285).
BranchPendingToo(reg, trs, symbol) ==
    IF RegGet(reg, symbol) = 0 THEN "send" ELSE "cancel"
Branch(reg, trs, symbol) ==
    IF RegGet(reg, symbol) = 0 THEN "send"
    ELSE IF trs[RegGet(reg, symbol)].status = "PENDING_ENTRY" THEN "cancel"
    ELSE "save_skip"

\* `if parsed_data and parsed_data.get("is_signal")`
IsSignalAlways(d) == TRUE
IsSignal(d) == d # NoSignal

\* _handle_single_message: parse_signal_message returned (NoSignal stands for
\* None and for is_signal false).
UnitParsed(u, S) ==
    /\ unitPc[u] = "parse"
    /\ \E d \in S \cup {NoSignal} :
         IF ~IsSignal(d)
         THEN /\ unitPc' = [unitPc EXCEPT ![u] = "save_nosignal"]
              /\ UNCHANGED <<parsed, existing, notes>>
         ELSE LET ex == RegGet(activeTrades, d.symbol)
                  to == Branch(activeTrades, trades, d.symbol)
              IN  /\ parsed' = [parsed EXCEPT ![u] = d]
                  /\ existing' = [existing EXCEPT ![u] = ex]
                  /\ unitPc' = [unitPc EXCEPT ![u] = to]
                  /\ notes' = IF to = "cancel" THEN Reply(notes, ex, "CANCEL") ELSE notes
    /\ UNCHANGED <<activeTrades, trades, confirmTicks, posted, processed_ids, sentCount,
                   todo, sentId, unitErr, pollDead>>
    /\ UNCHANGED <<handled, stored, price_now, batch, origin>>
    /\ UNCHANGED monVars

\* The cancellation reply returned: del self.trade_monitor.active_trades[symbol].
UnitCancelled(u) ==
    /\ unitPc[u] = "cancel"
    /\ IF HasKey(activeTrades, parsed[u].symbol)
       THEN /\ activeTrades' = RegDel(activeTrades, parsed[u].symbol)
            /\ unitPc' = [unitPc EXCEPT ![u] = "send"]
            /\ UNCHANGED <<parsed, existing, sentId, unitErr, pollDead>>
       ELSE /\ Raise(u, "KeyError")
            /\ UNCHANGED activeTrades
    /\ UNCHANGED <<trades, notes, confirmTicks, posted, processed_ids, sentCount, todo>>
    /\ UNCHANGED <<handled, stored, price_now, batch, origin>>
    /\ UNCHANGED monVars

\* TargetChannel.save_message returned or raised: send_message gave a Message,
\* gave something else, or raised (and `return message` in the except clause
\* then raises UnboundLocalError).
UnitSent(u) ==
    /\ unitPc[u] = "send"
    /\ \/ /\ sentCount' = [sentCount EXCEPT ![u] = @ + 1]
          /\ sentId' = [sentId EXCEPT ![u] = sentCount[u] + 1]
          /\ unitPc' = [unitPc EXCEPT ![u] = "price"]
          /\ UNCHANGED <<parsed, existing, unitErr, pollDead>>
       \/ /\ unitPc' = [unitPc EXCEPT ![u] = "save_signal"]
          /\ UNCHANGED <<sentCount, sentId, parsed, existing, unitErr, pollDead>>
       \/ /\ Raise(u, "UnboundLocalError")
          /\ UNCHANGED sentCount
    /\ UNCHANGED <<activeTrades, trades, notes, confirmTicks, posted, processed_ids, todo>>
    /\ UNCHANGED <<handled, stored, price_now, batch, origin>>
    /\ UNCHANGED monVars

\* TradeMonitor.add_trade.
add_trade_append(reg, symbol, tid) == RegPutAppend(reg, symbol, tid)
add_trade(reg, symbol, tid) == RegPut(reg, symbol, tid)

\* get_symbol_price returned: Trade(...) and add_trade.
UnitPriced(u, P) ==
    /\ unitPc[u] = "price"
    /\ \E price \in P \cup {None} :
         IF TradeInitRaises(parsed[u], price)
         THEN /\ Raise(u, "TypeError")
              /\ UNCHANGED <<activeTrades, trades, notes, origin, hist, price_now>>
         ELSE /\ price_now' = [price_now EXCEPT ![u] = price]
              /\ trades' = Append(trades, NewTrade(sentId[u], parsed[u], price))
              /\ notes' = Append(notes, NoNotes)
              /\ origin' = Append(origin, u)
              /\ hist' = Append(hist, Off)
              /\ activeTrades' = add_trade(activeTrades, parsed[u].symbol, Len(trades) + 1)
              /\ unitPc' = [unitPc EXCEPT ![u] = "save_signal"]
              /\ UNCHANGED <<parsed, existing, sentId, unitErr, pollDead>>
    /\ UNCHANGED <<confirmTicks, posted, processed_ids, sentCount, todo>>
    /\ UNCHANGED <<handled, stored, batch>>
    /\ UNCHANGED <<monPc, monItems, monRemove, monPrice, monStatus, replyOk, lastSample>>

\* processed_ids.add(message.id), whatever became of the storage write.
MarkProcessedIfSaved(ids, id, saved) == IF saved THEN ids \cup {id} ELSE ids
MarkProcessed(ids, id, saved) == ids \cup {id}

\* storage_channel.save_message returned (lines 280, 295, 300), having sent the
\* id or having caught the error of the send: processed_ids.add(message.id),
\* and process() goes on to its next message.
UnitSaved(u, W) ==
    /\ unitPc[u] \in {"save_skip", "save_signal", "save_nosignal"}
    /\ \E saved \in W :
         /\ stored' = [stored EXCEPT ![u] = IF saved THEN @ \cup {Head(todo[u])} ELSE @]
         /\ processed_ids' = [processed_ids EXCEPT ![u] = MarkProcessed(@, Head(todo[u]), saved)]
    /\ handled' = IF Tail(todo[u]) = <<>> THEN handled
                  ELSE [handled EXCEPT ![u] = Append(@, Head(Tail(todo[u])))]
    /\ todo' = [todo EXCEPT ![u] = Tail(@)]
    /\ batch' = IF Tail(todo[u]) = <<>> THEN [batch EXCEPT ![u] = <<>>] ELSE batch
    /\ unitPc' = [unitPc EXCEPT ![u] = IF Tail(todo[u]) = <<>> THEN "idle" ELSE "parse"]
    /\ parsed' = [parsed EXCEPT ![u] = NoSignal]
    /\ existing' = [existing EXCEPT ![u] = 0]
    /\ sentId' = [sentId EXCEPT ![u] = 0]
    /\ price_now' = [price_now EXCEPT ![u] = None]
    /\ UNCHANGED <<activeTrades, trades, notes, confirmTicks, posted, sentCount, unitErr,
                   pollDead, origin>>
    /\ UNCHANGED monVars

\* ---------------------------------------------------- the monitoring cycle
\* _mt5_polling_loop calls run_monitoring_cycle: the snapshot of the registry.
MonStart ==
    /\ monPc = "sleep"
    /\ activeTrades # <<>>
    /\ monItems' = activeTrades
    /\ monRemove' = <<>>
    /\ monPc' = "price"
    /\ UNCHANGED <<activeTrades, trades, notes, confirmTicks, monPrice, monStatus,
                   replyOk, lastSample, hist>>
    /\ UNCHANGED unitVars

\* The end of one iteration of the for loop: the next item's price is awaited,
\* or the loop is over and the symbols of trades_to_remove are deleted (a
\* KeyError there ends _mt5_polling_loop).
Continue(remove) ==
    IF Tail(monItems) # <<>>
    THEN /\ monItems' = Tail(monItems)
         /\ monRemove' = remove
         /\ monPc' = "price"
         /\ UNCHANGED activeTrades
    ELSE /\ monItems' = <<>>
         /\ monRemove' = <<>>
         /\ activeTrades' = DelAll(activeTrades, remove).reg
         /\ monPc' = IF DelAll(activeTrades, remove).ok THEN "sleep" ELSE "dead"

\* `if price is None: continue`
PriceIsNoneNever(price) == FALSE
PriceIsNone(price) == price = None

\* get_symbol_price returned for the trade at the head of the snapshot.
MonPriced(P, watch) ==
    /\ monPc = "price"
    /\ \E price \in P \cup {None} :
         LET t == Head(monItems).tid
             trade == trades[t]
             entered == _check_entry_hit(trade, price)
             exit == _check_exit_hit(trade, price)
         IN  /\ lastSample' = IF watch THEN [tid |-> t, price |-> price] ELSE lastSample
             /\ IF PriceIsNone(price)
                THEN /\ Continue(monRemove)
                     /\ UNCHANGED <<trades, notes, monPrice, monStatus, hist>>
                ELSE /\ hist' = IF watch THEN [hist EXCEPT ![t] = Track(@, price)] ELSE hist
                     /\ IF trade.status = "PENDING_ENTRY"
                        THEN /\ trades' = [trades EXCEPT ![t] = entered]
                             /\ IF EntryHit(entered, confirmTicks)
                                THEN /\ notes' = Reply(notes, t, "EXECUTED")
                                     /\ monPc' = "notify_entry"
                                     /\ monPrice' = price
                                     /\ UNCHANGED <<activeTrades, monItems, monRemove,
                                                    monStatus>>
                                ELSE /\ Continue(monRemove)
                                     /\ UNCHANGED <<notes, monPrice, monStatus>>
                        ELSE IF trade.status = "ACTIVE"
                        THEN /\ trades' = [trades EXCEPT ![t] = exit.trade]
                             /\ IF exit.status # "NONE"
                                THEN /\ notes' = Reply(notes, t, UpdateKind(exit.status))
                                     /\ monPc' = "notify_exit"
                                     /\ monPrice' = price
                                     /\ monStatus' = exit.status
                                     /\ UNCHANGED <<activeTrades, monItems, monRemove>>
                                ELSE /\ Continue(monRemove)
                                     /\ UNCHANGED <<notes, monPrice, monStatus>>
                        ELSE /\ Continue(monRemove)
                             /\ UNCHANGED <<trades, notes, monPrice, monStatus>>
    /\ UNCHANGED <<confirmTicks, replyOk>>
    /\ UNCHANGED unitVars

\* The lines after `await self._send_update(trade, "EXECUTED", price)`:
\* reply_to_message has caught the error of a send that failed, so they run
\* whether the reply was delivered or not.
ExecutedIfDelivered(trade, price, delivered) ==
    IF delivered THEN [trade EXCEPT !.status = "ACTIVE", !.entry_executed_price = price]
    ELSE trade
Executed(trade, price, delivered) ==
    [trade EXCEPT !.status = "ACTIVE", !.entry_executed_price = price]

\* The EXECUTED reply returned: the trade becomes ACTIVE at this price.
MonEntrySent(D) ==
    /\ monPc = "notify_entry"
    /\ \E delivered \in D :
         /\ replyOk' = delivered
         /\ trades' = [trades EXCEPT ![Head(monItems).tid] = Executed(@, monPrice, delivered)]
    /\ monPrice' = None
    /\ Continue(monRemove)
    /\ UNCHANGED <<notes, confirmTicks, monStatus, lastSample, hist>>
    /\ UNCHANGED unitVars

\* The SL / TP1 / TP2 / BREAKEVEN reply returned: trades_to_remove.append(symbol)
\* unless the status is the non-final TP1.
MonExitSent(D) ==
    /\ monPc = "notify_exit"
    /\ replyOk' \in D
    /\ monPrice' = None
    /\ monStatus' = "NONE"
    /\ Continue(IF IsFinal(monStatus)
                THEN Append(monRemove, Head(monItems).symbol)
                ELSE monRemove)
    /\ UNCHANGED <<trades, notes, confirmTicks, lastSample, hist>>
    /\ UNCHANGED unitVars

\* ------------------------------------------------------ the specifications
Next ==
    \/ \E u \in Units : PostMessage(u)
    \/ PollStart
    \/ \E u \in Units : UnitFetch(u)
    \/ \E u \in Units : UnitParsed(u, Signals)
    \/ \E u \in Units : UnitCancelled(u)
    \/ \E u \in Units : UnitSent(u)
    \/ \E u \in Units : UnitPriced(u, Prices)
    \/ \E u \in Units : UnitSaved(u, Sent)
    \/ MonStart
    \/ MonPriced(Prices, FALSE)
    \/ MonEntrySent(Sent)
    \/ MonExitSent(Sent)

Spec == Init /\ [][Next]_vars

\* One trade, just admitted by the first unit from any signal of LifeSignals,
\* and only the monitoring loop running: the trade's life under every sample
\* sequence and every ENTRY_CONFIRM_TICKS up to MaxTicks.
InitLife ==
    /\ \E d \in LifeSignals, p \in LifeSignalPrices :
         /\ trades = <<NewTrade(1, d, p)>>
         /\ activeTrades = add_trade(<<>>, d.symbol, 1)
    /\ confirmTicks \in 1..MaxTicks
    /\ posted = [u \in Units |-> IF u = FirstUnit THEN 1 ELSE 0]
    /\ processed_ids = [u \in Units |-> IF u = FirstUnit THEN {1} ELSE {}]
    /\ sentCount = [u \in Units |-> IF u = FirstUnit THEN 1 ELSE 0]
    /\ handled = [u \in Units |-> IF u = FirstUnit THEN <<1>> ELSE <<>>]
    /\ stored = [u \in Units |-> IF u = FirstUnit THEN {1} ELSE {}]
    /\ Fresh

NextLife ==
    \/ MonStart
    \/ MonPriced(LifePrices, TRUE)
    \/ MonEntrySent(SentOrLost)
    \/ MonExitSent(SentOrLost)

SpecLife == InitLife /\ [][NextLife]_vars

\* SpecLife for the trades created with waiting_for_pullback set: a LONG signal
\* met by a price above its entry, a SHORT signal by a price below it.
InitPull ==
    /\ InitLife
    /\ trades[1].waiting_for_pullback

SpecPull == InitPull /\ [][NextLife]_vars

\* The admission pipeline alone, over AdmitSignals and AdmitPrices.
NextAdmit ==
    \/ \E u \in Units : PostMessage(u)
    \/ PollStart
    \/ \E u \in Units : UnitFetch(u)
    \/ \E u \in Units : UnitParsed(u, AdmitSignals)
    \/ \E u \in Units : UnitCancelled(u)
    \/ \E u \in Units : UnitSent(u)
    \/ \E u \in Units : UnitPriced(u, AdmitPrices)
    \/ \E u \in Units : UnitSaved(u, SentOrLost)

SpecAdmit == Init /\ [][NextAdmit]_vars

\* Two trades, of two symbols, admitted by the first unit, and only the
\* monitoring loop running: one cycle evaluates both.
InitPair ==
    /\ \E d1 \in PairSignals, d2 \in PairSignals, p \in PairPrices :
         /\ d1.symbol # d2.symbol
         /\ trades = <<NewTrade(1, d1, p), NewTrade(2, d2, p)>>
         /\ activeTrades = add_trade(add_trade(<<>>, d1.symbol, 1), d2.symbol, 2)
    /\ confirmTicks \in 1..MaxTicks
    /\ posted = [u \in Units |-> IF u = FirstUnit THEN 2 ELSE 0]
    /\ processed_ids = [u \in Units |-> IF u = FirstUnit THEN {1, 2} ELSE {}]
    /\ sentCount = [u \in Units |-> IF u = FirstUnit THEN 2 ELSE 0]
    /\ handled = [u \in Units |-> IF u = FirstUnit THEN <<1, 2>> ELSE <<>>]
    /\ stored = [u \in Units |-> IF u = FirstUnit THEN {1, 2} ELSE {}]
    /\ Fresh

NextPair ==
    \/ MonStart
    \/ MonPriced(PairPrices, TRUE)
    \/ MonEntrySent(SentOrLost)
    \/ MonExitSent(SentOrLost)

SpecPair == InitPair /\ [][NextPair]_vars

\* Shutdown: the interrupt cancels main() at `await asyncio.Future()`, main
\* awaits processor.stop(), and asyncio.run then cancels the tasks that are
\* left, the two loops among them, each at the await it is suspended at.
\* Nothing awaits or signals the loops before that.
Shutdown ==
    /\ monPc # "cancelled"
    /\ unitPc' = [u \in Units |-> "cancelled"]
    /\ monPc' = "cancelled"
    /\ UNCHANGED <<activeTrades, trades, notes, confirmTicks, posted, processed_ids,
                   sentCount, batch, todo, parsed, existing, sentId, price_now, unitErr,
                   pollDead, handled, stored, origin, monItems, monRemove, monPrice,
                   monStatus, replyOk, lastSample, hist>>

NextStop == Next \/ Shutdown

SpecStop == Init /\ [][NextStop]_vars

\* SpecPair with the event loop running every task that can run, except that
\* a price call for BlockedSymbol need never return (the executor thread of
\* get_symbol_price hangs in the terminal).
BlockedSymbol == "XAUUSD"
PairTids == {1, 2}

SpecBlock ==
    /\ InitPair
    /\ [][NextPair]_vars
    /\ WF_vars(MonStart)
    /\ WF_vars(MonPriced(PairPrices, TRUE) /\ Head(monItems).symbol # BlockedSymbol)
    /\ WF_vars(MonEntrySent(SentOrLost))
    /\ WF_vars(MonExitSent(SentOrLost))

\* ------------------------------------------------------------ the claims
RegTids(reg) == {reg[i].tid : i \in 1..Len(reg)}
Tids == 1..Len(trades)

\* C1: in every reachable state, under every interleaving of the units'
\* admission handlers and the monitoring cycle, the registry holds at most one
\* trade per symbol: no two entries of active_trades have the same symbol, and
\* every entry is a live (PENDING_ENTRY or ACTIVE) trade of that symbol.
C1_OneTradePerSymbol ==
    /\ \A i, j \in 1..Len(activeTrades) :
         activeTrades[i].symbol = activeTrades[j].symbol => i = j
    /\ \A i \in 1..Len(activeTrades) :
         /\ activeTrades[i].tid \in Tids
         /\ trades[activeTrades[i].tid].symbol = activeTrades[i].symbol
         /\ trades[activeTrades[i].tid].status \in {"PENDING_ENTRY", "ACTIVE"}

\* Two units admitted a trade for the same symbol at the same time: the second
\* add_trade found the first one's entry in place and replaced it.
C1_Witness ==
    /\ Len(activeTrades) = 1
    /\ \E i \in 1..Len(activeTrades) : \E t \in Tids :
         /\ t # activeTrades[i].tid
         /\ trades[t].symbol = activeTrades[i].symbol
         /\ t \notin RegTids(activeTrades)
         /\ notes[t] = NoNotes

\* C2: no step of the admission pipeline removes from the registry a trade
\* whose status is ACTIVE at that moment; an ACTIVE trade leaves the registry
\* only in a step of the monitoring cycle, after a terminal exit (SL, TP2,
\* BREAKEVEN, or TP1 with no TP2) was notified for it.
C2_AdmissionNeverRemovesActive ==
    [][ \A t \in RegTids(activeTrades) \ RegTids(activeTrades') :
          trades[t].status = "ACTIVE" =>
              /\ unitPc' = unitPc
              /\ \/ notes[t]["SL"] + notes[t]["TP2"] + notes[t]["BREAKEVEN"] > 0
                 \/ (notes[t]["TP1"] > 0 /\ trades[t].tp2 = None) ]_vars

\* C3: a handling that found a PENDING_ENTRY trade for the signal's symbol,
\* sent its cancellation and then sent the new signal message, ends with
\* exactly one cancellation issued for the old trade, the old trade out of the
\* registry, and the registry entry of the symbol a trade created by this
\* handling, PENDING_ENTRY, whose message_id is the id of the signal message
\* just sent.
C3_SupersedeAdmitsNew ==
    [][ \A u \in Units :
          (existing[u] # 0 /\ unitPc[u] = "price" /\ unitPc'[u] # "price")
          => LET new == RegGet(activeTrades', parsed[u].symbol) IN
             /\ notes'[existing[u]]["CANCEL"] = 1
             /\ existing[u] \notin RegTids(activeTrades')
             /\ Len(trades') = Len(trades) + 1
             /\ new = Len(trades')
             /\ trades'[new].status = "PENDING_ENTRY"
             /\ trades'[new].message_id = sentId[u] ]_vars

\* C4: when the extractor returns a signal for a symbol whose registry entry
\* is an ACTIVE trade, the handler goes to line 280 leaving the registry, every
\* trade, the notifications and the target channel as they were; and the step
\* that follows the storage write leaves them alone too and adds the source
\* message id to the unit's processed_ids.
C4_Frame ==
    /\ activeTrades' = activeTrades
    /\ trades' = trades
    /\ notes' = notes
    /\ sentCount' = sentCount
C4_ActiveTradeRejectsSignal ==
    [][ \A u \in Units :
          /\ ( /\ unitPc[u] = "parse"
               /\ parsed'[u] # NoSignal
               /\ RegGet(activeTrades, parsed'[u].symbol) # 0
               /\ trades[RegGet(activeTrades, parsed'[u].symbol)].status = "ACTIVE" )
             => (unitPc'[u] = "save_skip" /\ C4_Frame)
          /\ (unitPc[u] = "save_skip" /\ unitPc'[u] # "save_skip")
             => /\ C4_Frame
                /\ processed_ids'[u] = processed_ids[u] \cup {Head(todo[u])}
                /\ unitErr'[u] = "none" ]_vars

\* A unit is at line 280: it found an ACTIVE trade for its signal's symbol.
C4_Witness ==
    \E u \in Units :
        /\ unitPc[u] = "save_skip"
        /\ existing[u] \in RegTids(activeTrades)
        /\ trades[existing[u]].status = "ACTIVE"
        /\ trades[existing[u]].symbol = parsed[u].symbol

\* A step in which the monitoring cycle gets the price of the trade at the
\* head of its snapshot and evaluates it.
MonPricedStep(t) ==
    /\ monPc = "price"
    /\ monPc' # "price" \/ monItems' # monItems
    /\ Head(monItems).tid = t
Sampled(t) == MonPricedStep(t) /\ lastSample'.price # None
Long(trade) == trade.direction = "BUY (LONG)"
Short(trade) == trade.direction = "SELL (SHORT)"
Tolerance(trade) == ENTRY_TOLERANCE_PIPS * PipValue(trade.symbol)

\* A confirming sample, as the entry phase defines it.
Confirming(trade, p) ==
    \/ Long(trade) /\ ~trade.waiting_for_pullback /\ p >= trade.entry - Tolerance(trade)
    \/ Long(trade) /\ trade.waiting_for_pullback /\ p <= trade.entry + Tolerance(trade)
    \/ Short(trade) /\ ~trade.waiting_for_pullback /\ p <= trade.entry + Tolerance(trade)
    \/ Short(trade) /\ trade.waiting_for_pullback /\ p >= trade.entry - Tolerance(trade)

\* C5: on every sample of a PENDING_ENTRY trade the counter becomes its old
\* value plus one if the sample confirms and 0 if it does not; the trade is
\* executed at that sample exactly when the counter thereby reaches
\* ENTRY_CONFIRM_TICKS; a trade becomes ACTIVE only so, and a PENDING_ENTRY
\* trade that is not being executed has fewer than ENTRY_CONFIRM_TICKS
\* consecutive confirming samples behind it.
C5_EntryDebounce ==
    [][ \A t \in Tids :
          /\ (Sampled(t) /\ trades[t].status = "PENDING_ENTRY") =>
                LET c == Confirming(trades[t], lastSample'.price)
                    n == trades[t].entry_confirmation_count
                IN  /\ trades'[t].entry_confirmation_count = IF c THEN n + 1 ELSE 0
                    /\ (monPc' = "notify_entry") <=> (c /\ n + 1 = confirmTicks)
                    /\ trades'[t].status = "PENDING_ENTRY"
          /\ (trades[t].status = "PENDING_ENTRY" /\ trades'[t].status = "ACTIVE") =>
                /\ monPc = "notify_entry"
                /\ Head(monItems).tid = t
                /\ trades[t].entry_confirmation_count = confirmTicks
          /\ ( /\ trades[t].status = "PENDING_ENTRY"
               /\ ~(monPc = "notify_entry" /\ Head(monItems).tid = t) ) =>
                trades[t].entry_confirmation_count < confirmTicks ]_vars

\* A trade was executed after ENTRY_CONFIRM_TICKS confirming samples in a row:
\* it is ACTIVE at the price of the last of them.
C5_Witness ==
    /\ confirmTicks = ENTRY_CONFIRM_TICKS
    /\ \E t \in Tids :
         /\ trades[t].status = "ACTIVE"
         /\ trades[t].entry_confirmation_count = ENTRY_CONFIRM_TICKS
         /\ lastSample = [tid |-> t, price |-> trades[t].entry_executed_price]

\* The exit the four rules give in their order: stop loss while TP1 is unhit,
\* TP2, TP1 (final when no TP2 is configured), breakeven.
ExitRule(trade, p) ==
    LET beyond(level) == (Long(trade) /\ p >= level) \/ (Short(trade) /\ p <= level)
        behind(level) == (Long(trade) /\ p <= level) \/ (Short(trade) /\ p >= level)
    IN  IF ~trade.tp1_hit /\ behind(trade.sl) THEN "SL"
        ELSE IF trade.tp2 # None /\ beyond(trade.tp2) THEN "TP2"
        ELSE IF trade.tp1 # None /\ ~trade.tp1_hit /\ beyond(trade.tp1)
             THEN (IF trade.tp2 # None THEN "TP1" ELSE "TP1_FINAL")
        ELSE IF trade.tp2 # None /\ trade.tp1_hit /\ behind(trade.entry) THEN "BREAKEVEN"
        ELSE "NONE"

\* C6: on every sample of an ACTIVE trade the monitoring cycle sends at most
\* one reply, the one the rules give in the order stop loss (while tp1_hit is
\* false), TP2, TP1, breakeven, and none when no rule matches; a LONG trade
\* with TP1 and TP2 and tp1_hit false whose sample is both <= sl and >= tp2
\* gets SL, and so does the mirrored SHORT trade.
C6_ExitPriority ==
    [][ \A t \in Tids :
          (Sampled(t) /\ trades[t].status = "ACTIVE") =>
             LET p == lastSample'.price
                 rule == ExitRule(trades[t], p)
                 kind == IF rule = "TP1_FINAL" THEN "TP1" ELSE rule
                 tr == trades[t]
             IN  /\ IF rule = "NONE"
                    THEN notes' = notes /\ monPc' # "notify_exit"
                    ELSE /\ monPc' = "notify_exit"
                         /\ monStatus' = rule
                         /\ notes' = [notes EXCEPT ![t][kind] = @ + 1]
                 /\ ( /\ tr.tp1 # None /\ tr.tp2 # None /\ ~tr.tp1_hit
                      /\ \/ Long(tr) /\ p <= tr.sl /\ p >= tr.tp2
                         \/ Short(tr) /\ p >= tr.sl /\ p <= tr.tp2 )
                    => monStatus' = "SL" ]_vars

\* The SL reply is awaited for a LONG trade with TP1 and TP2 whose sample was
\* at or below the stop loss and at or above TP2.
C6_Witness ==
    /\ monPc = "notify_exit"
    /\ monStatus = "SL"
    /\ LET tr == trades[Head(monItems).tid] IN
         /\ Long(tr) /\ tr.tp1 # None /\ tr.tp2 # None /\ ~tr.tp1_hit
         /\ lastSample.tid = Head(monItems).tid
         /\ lastSample.price <= tr.sl
         /\ lastSample.price >= tr.tp2
         /\ notes[Head(monItems).tid]["SL"] = 1
         /\ notes[Head(monItems).tid]["TP2"] = 0

\* C7: tp1_hit, once true, stays true; a trade with TP2 configured whose
\* tp1_hit is true has had no SL reply and gets none in any step, and its
\* status stays ACTIVE; the TP1 reply of such a trade does not take it out of
\* the registry.
C7_Tp1Latched ==
    [][ \A t \in Tids :
          /\ trades[t].tp1_hit => trades'[t].tp1_hit
          /\ (trades[t].tp1_hit /\ trades[t].tp2 # None) =>
                /\ notes[t]["SL"] = 0
                /\ notes'[t]["SL"] = 0
                /\ trades[t].status = "ACTIVE"
                /\ trades'[t].status = "ACTIVE"
          /\ ( /\ monPc = "notify_exit" /\ monPc' # "notify_exit"
               /\ monStatus = "TP1" /\ Head(monItems).tid = t ) =>
                /\ t \in RegTids(activeTrades')
                /\ trades'[t].tp1_hit
                /\ trades'[t].tp2 # None ]_vars

\* A LONG trade with TP2, TP1 hit, was just sampled at or below its stop loss:
\* no SL reply exists for it.
C7_Witness ==
    \E t \in Tids :
        /\ Long(trades[t]) /\ trades[t].tp2 # None /\ trades[t].tp1_hit
        /\ notes[t]["TP1"] = 1
        /\ lastSample.tid = t
        /\ lastSample.price # None
        /\ lastSample.price <= trades[t].sl
        /\ notes[t]["SL"] = 0

\* C8: a BREAKEVEN reply is sent only for a trade with TP2 configured and
\* tp1_hit true.  An ACTIVE trade with TP1 and no TP2 sampled at a price that
\* satisfies TP1 gets a terminal reply at that sample (TP1, or SL when the
\* sample is also behind the stop loss), never BREAKEVEN, and is out of the
\* registry when that cycle ends.
C8_Breakeven ==
    [][ \A t \in Tids :
          LET tr == trades[t] IN
          /\ notes'[t]["BREAKEVEN"] # notes[t]["BREAKEVEN"] => (tr.tp2 # None /\ tr.tp1_hit)
          /\ (tr.tp2 = None) => notes'[t]["BREAKEVEN"] = 0
          /\ ( /\ Sampled(t) /\ tr.status = "ACTIVE" /\ tr.tp1 # None /\ tr.tp2 = None
               /\ \/ Long(tr) /\ lastSample'.price >= tr.tp1
                  \/ Short(tr) /\ lastSample'.price <= tr.tp1 ) =>
                /\ monPc' = "notify_exit"
                /\ monStatus' \in {"TP1_FINAL", "SL"}
                /\ monStatus' = "SL" <=>
                      \/ Long(tr) /\ lastSample'.price <= tr.sl
                      \/ Short(tr) /\ lastSample'.price >= tr.sl
                /\ notes'[t]["TP1"] + notes'[t]["SL"] = 1
          /\ ( /\ monPc = "notify_exit" /\ monPc' \in {"sleep", "dead"}
               /\ Head(monItems).tid = t /\ tr.tp1 # None /\ tr.tp2 = None ) =>
                t \notin RegTids(activeTrades') ]_vars

\* A trade with TP1 and no TP2 was closed by its TP1: the cycle is over and
\* the trade is out of the registry.
C8_Witness ==
    \E t \in Tids :
        /\ trades[t].tp1 # None /\ trades[t].tp2 = None
        /\ notes[t]["TP1"] = 1
        /\ notes[t]["SL"] = 0
        /\ monPc = "sleep"
        /\ t \notin RegTids(activeTrades)

\* The trade of the two scenarios, after a cycle has ended.
ScenTrade(t) ==
    /\ confirmTicks = ENTRY_CONFIRM_TICKS
    /\ trades[t].symbol = ScenarioSignal.symbol
    /\ trades[t].entry = ScenarioSignal.entry_price
    /\ trades[t].sl = ScenarioSignal.sl
    /\ trades[t].tp1 = ScenarioSignal.tp1
    /\ trades[t].tp2 = ScenarioSignal.tp2
    /\ monPc = "sleep"
Exits(t) == notes[t]["SL"] + notes[t]["TP1"] + notes[t]["TP2"] + notes[t]["BREAKEVEN"]

\* Scenario B as stated: after 111 the trade has its TP1 reply, is ACTIVE and
\* has tp1_hit; after 94 no stop loss has fired and the trade is still open,
\* so that 99 is the sample BREAKEVEN fires and closes the trade on.
C9_ScenarioB_Stated ==
    \A t \in Tids : ScenTrade(t) =>
        /\ hist[t] = SubSeq(ScenarioB, 1, 4) =>
              /\ notes[t]["TP1"] = 1 /\ trades[t].tp1_hit
              /\ trades[t].status = "ACTIVE" /\ t \in RegTids(activeTrades)
        /\ hist[t] = SubSeq(ScenarioB, 1, 5) =>
              /\ notes[t]["SL"] = 0
              /\ notes[t]["BREAKEVEN"] = 0
              /\ t \in RegTids(activeTrades)
        /\ hist[t] = ScenarioB =>
              /\ notes[t]["BREAKEVEN"] = 1
              /\ t \notin RegTids(activeTrades)

\* C9: Scenario B, for the ACTIVE LONG trade entry=100, sl=95, tp1=110, tp2=120:
\* 111 gives the TP1 reply and the trade stays ACTIVE, in the registry, with
\* tp1_hit; 94 fires no stop loss but, being <= entry, fires BREAKEVEN and
\* closes the trade on that sample; 99 is never evaluated for the trade.
C9_ScenarioB ==
    \A t \in Tids : ScenTrade(t) =>
        /\ hist[t] = SubSeq(ScenarioB, 1, 4) =>
              /\ notes[t]["TP1"] = 1 /\ trades[t].tp1_hit
              /\ trades[t].status = "ACTIVE" /\ t \in RegTids(activeTrades)
              /\ notes[t]["SL"] = 0 /\ notes[t]["BREAKEVEN"] = 0 /\ notes[t]["TP2"] = 0
        /\ hist[t] = SubSeq(ScenarioB, 1, 5) =>
              /\ notes[t]["SL"] = 0
              /\ notes[t]["BREAKEVEN"] = 1
              /\ notes[t]["TP1"] = 1 /\ notes[t]["TP2"] = 0
              /\ t \notin RegTids(activeTrades)
        /\ hist[t] # ScenarioB

\* The scenario's trade after the sample 94: closed by BREAKEVEN.
C9_Witness ==
    \E t \in Tids :
        /\ ScenTrade(t)
        /\ hist[t] = SubSeq(ScenarioB, 1, 5)
        /\ lastSample = [tid |-> t, price |-> ScenarioB[5]]
        /\ notes[t]["BREAKEVEN"] = 1
        /\ t \notin RegTids(activeTrades)

\* Scenario A, after each of its samples.
ScenarioAHolds ==
    \A t \in Tids : ScenTrade(t) =>
        /\ hist[t] \in {SubSeq(ScenarioA, 1, 1), SubSeq(ScenarioA, 1, 2)} =>
              /\ trades[t].status = "PENDING_ENTRY"
              /\ notes[t] = NoNotes
        /\ (Len(hist[t]) >= 3 /\ IsPrefix(hist[t], ScenarioA)) =>
              /\ trades[t].status = "ACTIVE"
              /\ trades[t].entry_executed_price = ScenarioA[3]
              /\ notes[t]["EXECUTED"] = 1
        /\ hist[t] \in {SubSeq(ScenarioA, 1, 3), SubSeq(ScenarioA, 1, 4)} =>
              /\ Exits(t) = 0
              /\ t \in RegTids(activeTrades)
        /\ hist[t] = ScenarioA =>
              /\ notes[t]["SL"] = 1
              /\ Exits(t) = 1
              /\ t \notin RegTids(activeTrades)

\* C10: the sample p on which the confirmation threshold is reached issues
\* exactly one EXECUTED reply, and when that reply has returned the trade is
\* ACTIVE with entry_executed_price = p; a trade gets at most one EXECUTED
\* reply and its entry_executed_price, once set, is never changed.  Scenario A
\* (LONG entry=100, sl=95, tolerance=0.5, three ticks, no pullback): 99.6 three
\* times executes the trade at 99.6, 96 brings no exit and 94 the stop-loss
\* close.
C10_ExecutedOnce ==
    /\ []ScenarioAHolds
    /\ [][ \A t \in Tids :
             /\ ( /\ Sampled(t) /\ trades[t].status = "PENDING_ENTRY"
                  /\ trades'[t].entry_confirmation_count = confirmTicks ) =>
                   /\ notes' = [notes EXCEPT ![t]["EXECUTED"] = @ + 1]
                   /\ monPc' = "notify_entry"
                   /\ monPrice' = lastSample'.price
             /\ (monPc = "notify_entry" /\ Head(monItems).tid = t) =>
                   /\ trades'[t].status = "ACTIVE"
                   /\ trades'[t].entry_executed_price = lastSample.price
                   /\ lastSample.tid = t
                   /\ notes'[t]["EXECUTED"] = 1
             /\ notes'[t]["EXECUTED"] <= 1
             /\ trades[t].status = "ACTIVE" => notes'[t]["EXECUTED"] = notes[t]["EXECUTED"]
             /\ trades[t].entry_executed_price # None =>
                   trades'[t].entry_executed_price = trades[t].entry_executed_price
             /\ (trades[t].entry_executed_price # None) <=> (trades[t].status = "ACTIVE") ]_vars

\* Scenario A ran to its end: executed at 99.6, closed by the stop loss at 94.
C10_Witness ==
    \E t \in Tids :
        /\ ScenTrade(t)
        /\ hist[t] = ScenarioA
        /\ trades[t].entry_executed_price = ScenarioA[3]
        /\ notes[t]["EXECUTED"] = 1
        /\ notes[t]["SL"] = 1
        /\ t \notin RegTids(activeTrades)

\* ---------------------------------------------------------------------------
Range(f) == {f[i] : i \in 1..Len(f)}
NoDup(f) == \A i, j \in 1..Len(f) : f[i] = f[j] => i = j
Handling(u) == unitPc[u] \in {"parse", "cancel", "send", "price", "save_skip",
                              "save_signal", "save_nosignal"}

\* C11: no message id is handled twice by a unit.  A fetch queues exactly the
\* returned ids that were never handled before, oldest first, and filters out
\* every id handled in an earlier cycle, which by then is in processed_ids;
\* the queued ids are then handled one after the other, each once.
C11_IdempotentAdmission ==
    /\ [](\A u \in Units :
            /\ NoDup(handled[u])
            /\ unitPc[u] \in {"idle", "fetch"} => Range(handled[u]) = processed_ids[u]
            /\ Handling(u) =>
                  /\ handled[u] # <<>>
                  /\ Head(todo[u]) = handled[u][Len(handled[u])]
                  /\ Range(Tail(todo[u])) \cap Range(handled[u]) = {}
                  /\ NoDup(todo[u]))
    /\ [][ \A u \in Units : unitPc[u] = "fetch" /\ unitPc'[u] # "fetch" =>
             LET returned == Range(get_latest_messages(posted[u], MAX_MESSAGES_TO_POLL)) IN
             /\ Range(todo'[u]) = returned \ Range(handled[u])
             /\ \A i, j \in 1..Len(todo'[u]) : i < j => todo'[u][i] < todo'[u][j]
             /\ UNCHANGED <<activeTrades, trades, notes, sentCount, stored, processed_ids>>
             /\ (returned \subseteq Range(handled[u])) =>
                   (unitPc'[u] = "idle" /\ handled' = handled) ]_vars

\* A later cycle of a unit: the fetch returned the ids 2 and 1, 1 was handled
\* in an earlier cycle and is filtered out, and 2 alone is being handled.
C11_Witness ==
    \E u \in Units :
        /\ posted[u] = 2
        /\ handled[u] = <<1, 2>>
        /\ 1 \in processed_ids[u]
        /\ todo[u] = <<2>>
        /\ unitPc[u] = "parse"

\* C12: every handling that was started ends with a storage write attempted
\* and the message id in the unit's processed_ids, whichever branch it took.
C12_AlwaysMarkedProcessed ==
    [][ \A u \in Units :
          (Handling(u) /\ (unitPc'[u] \in {"idle", "raised"} \/ handled'[u] # handled[u])) =>
              /\ unitPc[u] \in {"save_skip", "save_signal", "save_nosignal"}
              /\ Head(todo[u]) \in processed_ids'[u] ]_vars

\* C13: no exception leaves a handling or a monitoring cycle: neither
\* _polling_loop nor _mt5_polling_loop is ever ended by one.
C13_NoLoopHalts ==
    /\ \A u \in Units : unitErr[u] = "none" /\ unitPc[u] # "raised"
    /\ ~pollDead
    /\ monPc # "dead"

\* C14: when get_symbol_price returns None for the trade the cycle is at, the
\* trade keeps every field, no reply is issued, nothing is added to
\* trades_to_remove, the trade stays in the registry, and the cycle goes on to
\* the next trade of its snapshot (or ends, removing only what earlier trades
\* of the cycle had marked).
C14_PriceUnavailableFrame ==
    [][ \A t \in Tids :
          (MonPricedStep(t) /\ lastSample' = [tid |-> t, price |-> None]) =>
              /\ trades' = trades
              /\ notes' = notes
              /\ t \in RegTids(activeTrades) => t \in RegTids(activeTrades')
              /\ IF Tail(monItems) # <<>>
                 THEN /\ monPc' = "price"
                      /\ monItems' = Tail(monItems)
                      /\ monRemove' = monRemove
                      /\ activeTrades' = activeTrades
                 ELSE /\ monPc' = "sleep"
                      /\ activeTrades' = DelAll(activeTrades, monRemove).reg
                      /\ trades[t].symbol \notin Range(monRemove) ]_vars

\* The first trade of the snapshot, with confirming samples behind it, got no
\* price in this cycle and kept its counter; the cycle is at the second trade.
C14_Witness ==
    /\ monPc = "price"
    /\ Len(monItems) = 1
    /\ lastSample.price = None
    /\ lastSample.tid # Head(monItems).tid
    /\ lastSample.tid \in RegTids(activeTrades)
    /\ trades[lastSample.tid].status = "PENDING_ENTRY"
    /\ trades[lastSample.tid].entry_confirmation_count > 0

Lifecycle == {"EXECUTED", "SL", "TP1", "TP2", "BREAKEVEN"}
ReplyReturned(t, pc) == monPc = pc /\ Head(monItems).tid = t /\ monPc' # pc

\* C15: when an update reply was not delivered, the lines after it run all
\* the same: after EXECUTED the trade is ACTIVE with its entry_executed_price,
\* after a terminal SL / TP1 / TP2 / BREAKEVEN it is out of the registry when
\* the cycle ends, after the non-terminal TP1 it stays with tp1_hit set; and
\* no reply is issued a second time: at most one of each kind per trade.
C15_NotificationFailure ==
    [][ \A t \in Tids :
          /\ (ReplyReturned(t, "notify_entry") /\ ~replyOk') =>
                /\ trades'[t].status = "ACTIVE"
                /\ trades'[t].entry_executed_price = monPrice
                /\ notes' = notes
          /\ (ReplyReturned(t, "notify_exit") /\ ~replyOk') =>
                /\ notes' = notes
                /\ trades'[t].tp1_hit = (monStatus \in {"TP1", "TP1_FINAL"} \/ trades[t].tp1_hit)
                /\ IF monStatus = "TP1"
                   THEN t \in RegTids(activeTrades') /\ trades[t].symbol \notin Range(monRemove')
                   ELSE IF Tail(monItems) = <<>>
                        THEN t \notin RegTids(activeTrades')
                        ELSE trades[t].symbol \in Range(monRemove')
          /\ \A k \in Lifecycle : notes'[t][k] <= 1 ]_vars

\* The EXECUTED reply of a trade was lost and so was its SL reply: the trade
\* was executed and closed all the same, with one reply of each issued.
C15_Witness ==
    \E t \in Tids :
        /\ ~replyOk
        /\ monPc = "sleep"
        /\ trades[t].status = "ACTIVE"
        /\ trades[t].entry_executed_price # None
        /\ notes[t]["EXECUTED"] = 1
        /\ notes[t]["SL"] = 1
        /\ t \notin RegTids(activeTrades)

\* C16: the step after the storage write adds the message id to processed_ids
\* whether the write reached the storage channel or not; processed_ids never
\* loses an id; and no fetch queues an id that is in processed_ids, so an id
\* whose write failed is not handled again.
C16_PersistFailure ==
    [][ \A u \in Units :
          /\ processed_ids[u] \subseteq processed_ids'[u]
          /\ ( /\ unitPc[u] \in {"save_skip", "save_signal", "save_nosignal"}
               /\ <<unitPc'[u], todo'[u]>> # <<unitPc[u], todo[u]>> ) =>
                /\ processed_ids'[u] = processed_ids[u] \cup {Head(todo[u])}
                /\ stored'[u] \in {stored[u], stored[u] \cup {Head(todo[u])}}
          /\ (unitPc[u] = "fetch" /\ unitPc'[u] # "fetch") =>
                /\ Range(todo'[u]) \cap processed_ids[u] = {}
                /\ handled'[u] # handled[u] =>
                      handled'[u][Len(handled'[u])] \notin processed_ids[u]
          /\ stored[u] \subseteq processed_ids[u] ]_vars

\* The write of id 1 failed; in a later cycle the fetch returned 2 and 1, and
\* only 2 is being handled.
C16_Witness ==
    \E u \in Units :
        /\ 1 \in processed_ids[u]
        /\ 1 \notin stored[u]
        /\ posted[u] = 2
        /\ todo[u] = <<2>>
        /\ handled[u] = <<1, 2>>
        /\ unitPc[u] \in {"save_skip", "save_signal", "save_nosignal"}

\* C17: a trade leaves the registry only in a step of the monitoring cycle
\* after its terminal exit reply (SL, TP2, BREAKEVEN, or TP1 with no TP2), or
\* in a step of a handler that found it PENDING_ENTRY and issued its cancel
\* reply, the trade being PENDING_ENTRY still; in particular not by add_trade
\* of another trade of its symbol, and not by the end-of-cycle deletion of a
\* symbol that was marked for another trade.
C17_RemovalOnlyByExitOrSupersede ==
    [][ \A t \in RegTids(activeTrades) \ RegTids(activeTrades') :
          \/ /\ monPc \in {"price", "notify_entry", "notify_exit"}
             /\ monPc' \in {"sleep", "dead"}
             /\ \/ notes'[t]["SL"] + notes'[t]["TP2"] + notes'[t]["BREAKEVEN"] > 0
                \/ notes'[t]["TP1"] > 0 /\ trades[t].tp2 = None
          \/ /\ \E u \in Units : /\ unitPc[u] = "cancel" /\ unitPc'[u] # "cancel"
                                 /\ existing[u] = t
             /\ notes[t]["CANCEL"] > 0
             /\ trades[t].status = "PENDING_ENTRY" ]_vars

\* C18: the Trade that a handler creates from the signal d and the price p it
\* got has the signal's symbol, entry, sl, tp1 and tp2, status PENDING_ENTRY,
\* entry_confirmation_count 0, tp1_hit false, no entry_executed_price;
\* direction LONG iff entry > sl, SHORT iff entry < sl, UNKNOWN otherwise;
\* and waiting_for_pullback is true exactly when p is above the entry of a
\* LONG trade or below the entry of a SHORT trade.
C18_TradeAtCreation ==
    [][ \A u \in Units : (unitPc[u] = "price" /\ unitPc'[u] = "save_signal") =>
          LET d == parsed[u]
              tr == trades'[Len(trades')]
              p == price_now'[u]
              long == d.sl # None /\ d.entry_price > d.sl
              short == d.sl # None /\ d.entry_price < d.sl
          IN  /\ Len(trades') = Len(trades) + 1
              /\ RegGet(activeTrades', d.symbol) = Len(trades')
              /\ tr.symbol = d.symbol /\ tr.entry = d.entry_price /\ tr.sl = d.sl
              /\ tr.tp1 = d.tp1 /\ tr.tp2 = d.tp2
              /\ tr.message_id = sentId[u]
              /\ tr.status = "PENDING_ENTRY"
              /\ tr.entry_confirmation_count = 0
              /\ tr.tp1_hit = FALSE
              /\ tr.entry_executed_price = None
              /\ tr.direction = IF long THEN "BUY (LONG)"
                                ELSE IF short THEN "SELL (SHORT)" ELSE "UNKNOWN"
              /\ tr.waiting_for_pullback <=>
                    /\ p # None
                    /\ \/ long /\ p > d.entry_price
                       \/ short /\ p < d.entry_price ]_vars

\* A handler has just created a SHORT trade while the price was below its
\* entry, and the other an UNKNOWN one while no price was available.
C18_Witness ==
    \E u1, u2 \in Units :
        /\ unitPc[u1] = "save_signal" /\ unitPc[u2] = "save_signal"
        /\ parsed[u1].sl # None /\ parsed[u1].sl > parsed[u1].entry_price
        /\ price_now[u1] # None /\ price_now[u1] < parsed[u1].entry_price
        /\ \E t \in Tids : /\ trades[t].message_id = sentId[u1]
                            /\ trades[t].direction = "SELL (SHORT)"
                            /\ trades[t].waiting_for_pullback
        /\ parsed[u2].sl = None
        /\ price_now[u2] = None
        /\ \E t \in Tids : /\ trades[t].direction = "UNKNOWN"
                            /\ trades[t].sl = None
                            /\ ~trades[t].waiting_for_pullback

\* C19: a trade whose direction is UNKNOWN keeps entry_confirmation_count 0
\* and status PENDING_ENTRY under every sequence of samples and every
\* threshold from 1 on, gets no EXECUTED and no exit reply, and stays in the
\* registry.
C19_UnknownInert ==
    \A t \in Tids : trades[t].direction = "UNKNOWN" =>
        /\ trades[t].entry_confirmation_count = 0
        /\ trades[t].status = "PENDING_ENTRY"
        /\ trades[t].entry_executed_price = None
        /\ ~trades[t].tp1_hit
        /\ \A k \in Lifecycle : notes[t][k] = 0
        /\ monPc \notin {"notify_entry", "notify_exit"}
        /\ t \in RegTids(activeTrades)

\* A trade with entry = sl, under a threshold of one tick, was sampled at its
\* entry price, and the cycle is over.
C19_Witness ==
    \E t \in Tids :
        /\ trades[t].direction = "UNKNOWN"
        /\ trades[t].entry = trades[t].sl
        /\ confirmTicks = 1
        /\ lastSample = [tid |-> t, price |-> trades[t].entry]
        /\ monPc = "sleep"

\* C20: a signal whose symbol differs at most in letter case from the symbol
\* of a registry entry is arbitrated against that entry (it supersedes or is
\* rejected, and does not go on to the send as for a new symbol), and no two
\* entries of the registry have symbols that differ only in letter case.
C20_CaseNormalized ==
    /\ [][ \A u \in Units :
             ( /\ unitPc[u] = "parse" /\ unitPc'[u] # "parse"
               /\ parsed'[u] # NoSignal
               /\ \E i \in 1..Len(activeTrades) :
                     upper(activeTrades[i].symbol) = upper(parsed'[u].symbol) )
             => unitPc'[u] \in {"cancel", "save_skip"} ]_vars
    /\ [](\A i, j \in 1..Len(activeTrades) :
            upper(activeTrades[i].symbol) = upper(activeTrades[j].symbol) => i = j)

\* C21: the trade was created with waiting_for_pullback set.  While the flag
\* is set a sample counts (counter + 1) exactly when it is at or inside the
\* pullback bound (LONG: p <= entry + tolerance, SHORT: p >= entry -
\* tolerance) and resets the counter otherwise; the first sample that counts
\* clears the flag; with the flag clear a sample counts exactly by the normal
\* rule (LONG: p >= entry - tolerance, SHORT mirrored); the flag changes only
\* at such a sample, is never set again, and is clear in every ACTIVE trade.
C21_PullbackGate ==
    /\ [][ \A t \in Tids :
             LET tr == trades[t]
                 n == tr.entry_confirmation_count
             IN
             /\ (Sampled(t) /\ tr.status = "PENDING_ENTRY" /\ tr.direction # "UNKNOWN") =>
                   LET p == lastSample'.price
                       pull == \/ Long(tr) /\ p <= tr.entry + Tolerance(tr)
                               \/ Short(tr) /\ p >= tr.entry - Tolerance(tr)
                       normal == \/ Long(tr) /\ p >= tr.entry - Tolerance(tr)
                                 \/ Short(tr) /\ p <= tr.entry + Tolerance(tr)
                   IN  IF tr.waiting_for_pullback
                       THEN /\ trades'[t].entry_confirmation_count = IF pull THEN n + 1 ELSE 0
                            /\ trades'[t].waiting_for_pullback = ~pull
                       ELSE /\ trades'[t].entry_confirmation_count = IF normal THEN n + 1 ELSE 0
                            /\ ~trades'[t].waiting_for_pullback
             /\ trades'[t].waiting_for_pullback # tr.waiting_for_pullback =>
                   (Sampled(t) /\ tr.status = "PENDING_ENTRY")
             /\ ~tr.waiting_for_pullback => ~trades'[t].waiting_for_pullback
             /\ tr.waiting_for_pullback => n = 0 ]_vars
    /\ [](\A t \in Tids : trades[t].status = "ACTIVE" => ~trades[t].waiting_for_pullback)

\* A LONG trade created with the flag set has had its pullback sample and was
\* then sampled above the pullback bound, which the normal rule counts: the
\* flag is clear, the counter is 2.
C21_Witness ==
    \E t \in Tids :
        /\ Long(trades[t])
        /\ trades[t].status = "PENDING_ENTRY"
        /\ ~trades[t].waiting_for_pullback
        /\ trades[t].entry_confirmation_count = 2
        /\ lastSample.tid = t
        /\ lastSample.price > trades[t].entry + Tolerance(trades[t])

\* C22: a trade created with waiting_for_pullback set is executed at a price
\* inside the entry zone: a LONG trade at no more than entry + tolerance, a
\* SHORT trade at no less than entry - tolerance, whatever ENTRY_CONFIRM_TICKS.
C22_NoWorseEntry ==
    \A t \in Tids :
        trades[t].status = "ACTIVE" =>
            /\ Long(trades[t]) =>
                  trades[t].entry_executed_price <= trades[t].entry + Tolerance(trades[t])
            /\ Short(trades[t]) =>
                  trades[t].entry_executed_price >= trades[t].entry - Tolerance(trades[t])

\* A terminal exit reply was issued for the trade: SL, TP2, BREAKEVEN, or TP1
\* with no TP2 configured.
TerminalFired(t) ==
    \/ notes[t]["SL"] + notes[t]["TP2"] + notes[t]["BREAKEVEN"] > 0
    \/ (notes[t]["TP1"] > 0 /\ trades[t].tp2 = None)
CycleOver == monPc \in {"sleep", "dead"}

\* C23: once the monitoring cycle in which a terminal exit fired for a trade
\* is over, the trade is not in the registry; from the moment its terminal
\* exit fired no reply of any kind is issued for it; and a trade with TP2
\* configured for which TP1 fired and no terminal exit did is in the registry.
C23_TerminalRemoved ==
    /\ [](\A t \in Tids : (CycleOver /\ TerminalFired(t)) => t \notin RegTids(activeTrades))
    /\ [](\A t \in Tids :
            (notes[t]["TP1"] > 0 /\ ~TerminalFired(t)) => t \in RegTids(activeTrades))
    /\ [][ \A t \in Tids : TerminalFired(t) => notes'[t] = notes[t] ]_vars

\* C24: a signal whose symbol's registry entry is a trade that has had its
\* terminal exit fire (the cycle that fired it has not ended yet, so the entry
\* is still there) is not rejected: the handler goes on to send the signal
\* message, and not to line 280.
C24_TerminalNotBlocking ==
    [][ \A u \in Units :
          ( /\ unitPc[u] = "parse"
            /\ parsed'[u] # NoSignal
            /\ RegGet(activeTrades, parsed'[u].symbol) # 0
            /\ TerminalFired(RegGet(activeTrades, parsed'[u].symbol)) )
          => (unitPc'[u] # "save_skip" /\ unitPc'[u] \in {"cancel", "send"}) ]_vars

OldestFirst(s) == \A i, j \in 1..Len(s) : i < j => s[i] < s[j]
NewestFirst(s) == \A i, j \in 1..Len(s) : i < j => s[i] > s[j]

\* C25: while a unit handles a batch, the fetched list is newest first and
\* what is still to handle is oldest first; the ids of the batch not in it are
\* the older ones and are all processed, the id being handled is the oldest
\* unprocessed one, and no other is touched before its handling ends.  So a
\* later message of a batch is handled after the earlier ones, and when its
\* signal is admitted the registry entry of its symbol becomes its trade: no
\* other trade of that symbol stays registered, and a trade found
\* PENDING_ENTRY for the symbol has been sent its cancellation.
C25_OldestFirst ==
    /\ [](\A u \in Units : Handling(u) =>
            /\ todo[u] # <<>>
            /\ NewestFirst(batch[u])
            /\ OldestFirst(todo[u])
            /\ Range(todo[u]) \subseteq Range(batch[u])
            /\ Range(todo[u]) \cap processed_ids[u] = {}
            /\ \A m \in Range(batch[u]) \ Range(todo[u]) :
                  m \in processed_ids[u] /\ m < Head(todo[u])
            /\ handled[u][Len(handled[u])] = Head(todo[u]))
    /\ [][ \A u \in Units :
             /\ (Handling(u) /\ todo'[u] # todo[u]) =>
                   /\ todo'[u] = Tail(todo[u])
                   /\ processed_ids'[u] = processed_ids[u] \cup {Head(todo[u])}
                   /\ activeTrades' = activeTrades
             /\ ( /\ unitPc[u] = "price" /\ unitPc'[u] = "save_signal"
                  /\ Len(batch[u]) > Len(todo[u]) ) =>
                   LET new == Len(trades') IN
                   /\ Len(trades') = Len(trades) + 1
                   /\ RegGet(activeTrades', parsed[u].symbol) = new
                   /\ trades'[new].message_id = sentId[u]
                   /\ \A t \in Tids : trades[t].symbol = parsed[u].symbol =>
                         t \notin RegTids(activeTrades')
                   /\ existing[u] # 0 => notes'[existing[u]]["CANCEL"] >= 1 ]_vars

\* One batch of two messages, both signals for the same symbol: the trade of
\* the older one was cancelled and the registry holds the trade of the newer.
C25_Witness ==
    \E u \in Units :
        /\ unitPc[u] = "save_signal"
        /\ batch[u] = <<2, 1>>
        /\ todo[u] = <<2>>
        /\ existing[u] = 1
        /\ Len(trades) = 2
        /\ trades[1].symbol = trades[2].symbol
        /\ notes[1]["CANCEL"] = 1
        /\ RegTids(activeTrades) = {2}
        /\ trades[2].message_id = sentId[u]

\* C26: when the extractor returns no signal (None, or is_signal false) the
\* handler goes straight to the storage write of line 300, and that step and
\* the one that follows the write leave the registry, every trade, every
\* trade's replies and the target channel as they were; the second adds the
\* message id to the storage channel and to the unit's processed_ids, changes
\* no other unit's set, and raises nothing.
C26_NoSignalFrame ==
    [][ \A u \in Units :
          /\ (unitPc[u] = "parse" /\ unitPc'[u] # "parse" /\ parsed'[u] = NoSignal) =>
                /\ unitPc'[u] = "save_nosignal"
                /\ C4_Frame
                /\ processed_ids' = processed_ids
                /\ stored' = stored
          /\ (unitPc[u] = "save_nosignal" /\ unitPc'[u] # "save_nosignal") =>
                /\ C4_Frame
                /\ processed_ids' =
                      [processed_ids EXCEPT ![u] = @ \cup {Head(todo[u])}]
                /\ stored' = [stored EXCEPT ![u] = @ \cup {Head(todo[u])}]
                /\ unitErr'[u] = "none"
                /\ unitPc'[u] \in {"idle", "parse"} ]_vars

\* The extractor returned no signal for a unit's message while a trade of
\* another unit is registered: the unit is at the storage write of line 300,
\* has sent nothing, and the trade is in the registry without any reply.
C26_Witness ==
    \E u \in Units :
        /\ unitPc[u] = "save_nosignal"
        /\ Head(todo[u]) \notin processed_ids[u]
        /\ sentCount[u] = 0
        /\ Len(trades) = 1
        /\ RegTids(activeTrades) = {1}
        /\ notes[1] = NoNotes

\* C27: a process() task is started for a unit only in a step that starts one
\* for every unit, taken when every unit's previous process() has returned
\* and none has raised; a monitoring cycle takes its snapshot of the registry
\* only when none is running, with nothing left of the previous one's
\* snapshot and removal list, and a running cycle only consumes its own; a loop
\* that an exception has ended starts no cycle.  (Between these starts the
\* steps of the two loops interleave freely.)
C27_NoOverlap ==
    [][ /\ \A u \in Units :
             (unitPc[u] # "fetch" /\ unitPc'[u] = "fetch") =>
                /\ \A v \in Units : unitPc[v] = "idle" /\ unitPc'[v] = "fetch"
                /\ \A v \in Units : todo[v] = <<>> /\ batch[v] = <<>>
                /\ ~pollDead
        /\ \A u \in Units :
             (unitPc[u] = "idle" /\ unitPc'[u] # "idle") => unitPc'[u] = "fetch"
        /\ \A u \in Units : unitPc[u] = "raised" => unitPc'[u] = "raised"
        /\ (monPc = "sleep" /\ monPc' # "sleep") =>
             /\ monItems = <<>> /\ monRemove = <<>>
             /\ monPc' = "price" /\ monItems' = activeTrades /\ monItems' # <<>>
        /\ (monPc # "sleep" /\ monItems' # monItems) =>
             (monItems # <<>> /\ monItems' = Tail(monItems))
        /\ monPc = "dead" => monPc' = "dead" ]_vars

\* A second admission cycle has started after the first one was over, while a
\* monitoring cycle is awaiting a price.
C27_Witness ==
    /\ \A u \in Units : unitPc[u] = "fetch"
    /\ \E u \in Units : processed_ids[u] # {}
    /\ monPc = "price"

\* The trade is in the part of the cycle's snapshot not evaluated yet.
InSnapshot(t) == monPc # "sleep" /\ \E i \in 1..Len(monItems) : monItems[i].tid = t

\* C28: whatever becomes of the price call for BlockedSymbol, every trade of
\* another symbol that a monitoring cycle has in its snapshot is evaluated by
\* that cycle.
C28_BlockedFeedNoDelay ==
    \A t \in PairTids :
        (InSnapshot(t) /\ trades[t].symbol # BlockedSymbol) ~> ~InSnapshot(t)

\* C29: the loops are stopped only between transitions: when they are
\* cancelled, the monitoring cycle is not awaiting the reply of an exit that
\* fired and has no removal pending, and no unit's handler is between the
\* cancellation it sent and the deletion of the old trade, or between the
\* signal message it sent and the registration of the trade and the marking
\* of the source message.
C29_GracefulDrain ==
    [][ (monPc # "cancelled" /\ monPc' = "cancelled") =>
          /\ monPc # "notify_exit"
          /\ monRemove = <<>>
          /\ \A u \in Units : unitPc[u] \notin {"cancel", "price", "save_signal"} ]_vars

\* C30: no trade has both an EXECUTED reply and a cancellation reply, and
\* once a trade's cancellation reply was issued no EXECUTED, SL, TP1, TP2 or
\* BREAKEVEN reply is issued for it.
C30_CancelExclusive ==
    /\ [](\A t \in Tids : ~(notes[t]["EXECUTED"] > 0 /\ notes[t]["CANCEL"] > 0))
    /\ [][ \A t \in Tids :
             notes[t]["CANCEL"] > 0 => \A k \in Lifecycle : notes'[t][k] = notes[t][k] ]_vars

\* C31: the units having different target channels, every reply issued for a
\* trade (EXECUTED, SL, TP1, TP2, BREAKEVEN, cancellation) goes to the target
\* channel that holds the trade's signal message: the channel of the unit
\* that admitted the trade is the channel the replies are sent to.
C31_RepliesToOrigin ==
    \A t \in Tids :
        (\E k \in Kinds : notes[t][k] > 0) => origin[t] = global_target_channel

\* C32: when a handling that cancelled and removed a PENDING_ENTRY trade
\* ends, by returning after its storage write or by an exception, the
\* registry holds a trade for the signal's symbol.
C32_SupersedeKeepsSymbol ==
    [][ \A u \in Units :
          ( /\ existing[u] # 0
            /\ unitPc[u] \in {"send", "price", "save_signal"}
            /\ unitPc'[u] \in {"idle", "parse", "raised"} )
          => HasKey(activeTrades', parsed[u].symbol) ]_vars
====
